---- MODULE Spec2Model ----
(***************************************************************************)
(* SMSHistoryBackend: the SMS submit / delete routes and the sms_messages  *)
(* table they reconcile against.                                           *)
(*                                                                         *)
(* The repository carries two definitions of sms_messages and two sets of  *)
(* routes, one per definition:                                             *)
(*   - the content-keyed schema of src/sql/sms_messages.sql, written by    *)
(*     POST /message and POST /messages of src/routes/sms.js;              *)
(*   - the identifier-keyed schema of the migration scripts                *)
(*     (src/unnamed/part_000), written by POST /, POST /bulk and           *)
(*     DELETE /:smsId of src/routes/auth.js (second module of that file).  *)
(* A deployment has one of the two tables; `schema` says which, and the    *)
(* routes of a family run against the table that has their columns.        *)
(*                                                                         *)
(* Strings are sequences of one-character strings.  Numbers of a request   *)
(* body are JSON numbers.  Each request is a slot of `req`; an action is   *)
(* the code a handler runs between two awaits.                             *)
(***************************************************************************)
EXTENDS Integers, Sequences, FiniteSets, TLC

VARIABLES
    load,       \* "concurrent" | "serial": the requests the clients send
    schema,     \* "content" | "identifier": which sms_messages table is deployed
    smsRows,    \* committed rows of the content-keyed table
    idRows,     \* committed rows of the identifier-keyed table
    conns,      \* pool connections: owner slot, open transaction, its rows
    req,        \* request slots: handler position and locals
    faults      \* storage failures injected so far

vars == <<load, schema, smsRows, idRows, conns, req, faults>>

----------------------------------------------------------------------------
(* Bounds *)

MaxReqs == 2        \* request slots of the concurrent specification
MaxBatch == 2       \* longest batch of the concurrent specification
MaxLong == 11       \* longest uniform batch of the serial specification
MaxFaults == 2      \* storage failures injected in one behaviour
PoolSize == 2       \* connections of the pool
Cutoff == 8         \* Date.now() less 30 days, on the clock of the model

(* Program constants *)

AddressPrefix == 20     \* unique_sms_per_user: address(20)
BodyPrefix == 100       \* unique_sms_per_user: body(100)
AddressMax == 50        \* address VARCHAR(50)
ErrorCap == 10          \* errors.slice(0, 10)
DefaultPage == 1        \* page = 1
DefaultLimit == 100     \* limit = 100
LimitCap == 1000        \* Math.min(1000, ...)
TopContacts == 10       \* LIMIT 10
DefaultType == 1        \* type = 1

Users == {1, 2}
Slots == 1..MaxReqs
Conns == 1..PoolSize

----------------------------------------------------------------------------
(* Strings.  A string is the sequence of its runs: a run is a character and *)
(* the number of times it is repeated, and neighbouring runs differ in      *)
(* their character.                                                         *)

Min(a, b) == IF a < b THEN a ELSE b

Run(c, n) == [c |-> c, n |-> n]

Str(c) == <<Run(c, 1)>>

\* the runs of any sequence of runs: empty runs dropped, equal neighbours joined
RECURSIVE Norm(_)
Norm(s) ==
    IF s = <<>> THEN <<>>
    ELSE IF Head(s).n = 0 THEN Norm(Tail(s))
    ELSE LET rest == Norm(Tail(s)) IN
         IF rest # <<>> /\ Head(rest).c = Head(s).c
         THEN <<Run(Head(s).c, Head(s).n + Head(rest).n)>> \o Tail(rest)
         ELSE <<Head(s)>> \o rest

\* s + t
Cat(s, t) == Norm(s \o t)

\* s.length
RECURSIVE StrLen(_)
StrLen(s) == IF s = <<>> THEN 0 ELSE Head(s).n + StrLen(Tail(s))

\* the first n characters of s
RECURSIVE Left(_, _)
Left(s, n) ==
    IF s = <<>> \/ n <= 0 THEN <<>>
    ELSE IF Head(s).n >= n THEN <<Run(Head(s).c, n)>>
    ELSE <<Head(s)>> \o Left(Tail(s), n - Head(s).n)

RECURSIVE TrimLeft(_)
TrimLeft(s) == IF s # <<>> /\ Head(s).c = " " THEN TrimLeft(Tail(s)) ELSE s

RECURSIVE TrimRight(_)
TrimRight(s) ==
    IF s # <<>> /\ s[Len(s)].c = " " THEN TrimRight(SubSeq(s, 1, Len(s) - 1)) ELSE s

\* express-validator .trim()
Trim(s) == TrimRight(TrimLeft(s))

Lower(c) == CASE c = "A" -> "a" [] c = "H" -> "h" [] OTHER -> c

\* utf8mb4_general_ci: comparison ignores case and trailing spaces
CollKey(s) == TrimRight(Norm([k \in 1..Len(s) |-> Run(Lower(s[k].c), s[k].n)]))

CollEq(s, t) == CollKey(s) = CollKey(t)

----------------------------------------------------------------------------
(* The content-keyed table (src/sql/sms_messages.sql).  A row keeps the     *)
(* columns a decision reads: user_id, address, body, date, type.            *)

SmsRow(userId, msg) ==
    [user_id |-> userId, address |-> msg.address, body |-> msg.body,
     date |-> msg.date, type |-> msg.type]

\* UNIQUE KEY unique_sms_per_user (user_id, address(20), body(100), date, type)
unique_sms_per_user(row) ==
    <<row.user_id, CollKey(Left(row.address, AddressPrefix)),
      CollKey(Left(row.body, BodyPrefix)), row.date, row.type>>

\* INSERT INTO sms_messages ... under strict SQL mode: the error code, or "OK"
InsertSms(rows, row) ==
    IF StrLen(row.address) > AddressMax THEN "ER_DATA_TOO_LONG"
    ELSE IF \E r \in rows : unique_sms_per_user(r) = unique_sms_per_user(row)
         THEN "ER_DUP_ENTRY"
    ELSE "OK"

\* SELECT ... WHERE user_id = ? AND address = ? AND body = ? AND date = ?
SelectSms(rows, userId, msg) ==
    {r \in rows : /\ r.user_id = userId
                  /\ CollEq(r.address, msg.address)
                  /\ CollEq(r.body, msg.body)
                  /\ r.date = msg.date}

----------------------------------------------------------------------------
(* src/routes/sms.js *)

\* `${msg.address}|${msg.body}|${msg.date}`
compositeKey(msg) ==
    Cat(Cat(Cat(Cat(msg.address, Str("|")), msg.body), Str("|")),
        Str(ToString(msg.date)))

\* !msg.address || !msg.body || !msg.date
MissingKeyField(msg) == msg.address = <<>> \/ msg.body = <<>> \/ msg.date = 0

\* !msg.address || !msg.body || !msg.date || !msg.type
MissingRequired(msg) == MissingKeyField(msg) \/ msg.type = 0

\* body('address').trim().notEmpty(), body('body').notEmpty(),
\* body('date').isInt({ min: 0 }), body('type').isInt({ min: 0 })
singleSMSValidation(msg) ==
    /\ Trim(msg.address) # <<>>
    /\ msg.body # <<>>
    /\ msg.date >= 0
    /\ msg.type >= 0

\* body('messages').isArray({ min: 1 }) and the rules of every element
multipleSMSValidation(messages) ==
    /\ Len(messages) >= 1
    /\ \A k \in 1..Len(messages) : singleSMSValidation(messages[k])

\* the body the handler reads: .trim() replaced the address
Sanitized(msg) == [msg EXCEPT !.address = Trim(msg.address)]

\* errors.unshift in the place of errors.push: the newest entry comes first
PushErrorFront(errors, k, what) == <<[item |-> k, error |-> what]>> \o errors

\* errors.push(...): the entry stands for the message it names
PushError(errors, k, what) == Append(errors, [item |-> k, error |-> what])

\* the message of the per-item catch
ErrorMessage(code) ==
    CASE code = "ER_DUP_ENTRY" -> "Duplicate entry conflict"
      [] code = "ER_DATA_TOO_LONG" -> "Data too long for field"
      [] code = "ER_BAD_NULL_ERROR" -> "Required field cannot be null"
      [] OTHER -> "Processing failed"

\* statusCode of POST /messages
StatusCode(hasErrors, totalProcessed) ==
    IF hasErrors THEN (IF totalProcessed > 0 THEN 207 ELSE 400) ELSE 200

\* success: !hasErrors || totalProcessed > 0
SuccessFlag(hasErrors, totalProcessed) == ~hasErrors \/ totalProcessed > 0

----------------------------------------------------------------------------
(* The identifier-keyed table (the migration scripts) and the pool.        *)

\* the field `type` of an item is <<>> (absent) or <<t>>: type = 1
TypeOrDefault(t) == IF t = <<>> THEN DefaultType ELSE t[1]

IdRow(userId, m) ==
    [user_id |-> userId, sms_id |-> m.sms_id, address |-> m.address,
     body |-> m.body, date |-> m.date, type |-> TypeOrDefault(m.type)]

\* UNIQUE KEY unique_user_sms (user_id, sms_id)
unique_user_sms(row) == <<row.user_id, CollKey(row.sms_id)>>

SameIdKey(rows, row) == {x \in rows : unique_user_sms(x) = unique_user_sms(row)}

\* rows of transactions that are still open on connections other than c
Uncommitted(c) == UNION {conns[d].rows : d \in Conns \ {c}}

\* a statement on connection c (0: an autocommit statement of pool.execute)
\* waits for the row locks of the open transactions of other connections
LockWait(c, row) == SameIdKey(Uncommitted(c), row) # {}

\* the connections whose open transaction holds the row lock the statement waits for
Blockers(c, row) == {d \in Conns \ {c} : SameIdKey(conns[d].rows, row) # {}}

\* the rows a statement on connection c sees when it checks the unique key
Visible(c) == idRows \cup (IF c = 0 THEN {} ELSE conns[c].rows)

\* INSERT IGNORE: affectedRows
InsertIgnoreAffected(c, row) == IF SameIdKey(Visible(c), row) = {} THEN 1 ELSE 0

\* the DELETE without its user_id = ?
DeleteMatchAnyUser(rows, userId, smsId) == {x \in rows : CollEq(x.sms_id, smsId)}

\* DELETE FROM sms_messages WHERE user_id = ? AND sms_id = ?
DeleteMatch(rows, userId, smsId) ==
    {x \in rows : x.user_id = userId /\ CollEq(x.sms_id, smsId)}

FreeConn(c) == conns[c].owner = 0

\* pool.execute takes a free connection for the statement and returns it
PoolFree == \E c \in Conns : FreeConn(c)

NoConn == [owner |-> 0, open |-> FALSE, rows |-> {}]

\* the transaction of connection c is over, without connection.release()
EndOnly(c) == [conns EXCEPT ![c].open = FALSE, ![c].rows = {}]

\* connection.release() in the finally: the transaction of the connection is
\* over and the pool has it again
Release(c) == [conns EXCEPT ![c] = NoConn]

\* body('sms_id').notEmpty() ... body('type').optional().isInt({ min: 0, max: 2 })
smsValidation(m) ==
    /\ m.sms_id # <<>>
    /\ m.address # <<>>
    /\ m.body # <<>>
    /\ m.date # <<>>
    /\ (m.type = <<>> \/ (m.type[1] >= 0 /\ m.type[1] <= 2))

\* body('messages').isArray({ min: 1 }), body('messages.*.sms_id').notEmpty() ...
bulkSmsValidation(messages) ==
    /\ Len(messages) >= 1
    /\ \A k \in 1..Len(messages) :
          /\ messages[k].sms_id # <<>>
          /\ messages[k].address # <<>>
          /\ messages[k].body # <<>>
          /\ messages[k].date # <<>>

\* errors.slice(0, 10)
Slice(errors) == SubSeq(errors, 1, Min(ErrorCap, Len(errors)))

----------------------------------------------------------------------------
(* GET /api/sms: the query parameters.  A parameter is <<>> (absent) or     *)
(* <<s>>, s the sequence of the characters sent.                            *)

Max(a, b) == IF a > b THEN a ELSE b

Digits == <<"0", "1", "2", "3", "4", "5", "6", "7", "8", "9">>

IsDigit(ch) == \E d \in 1..Len(Digits) : Digits[d] = ch

DigitValue(ch) == (CHOOSE d \in 1..Len(Digits) : Digits[d] = ch) - 1

NaN == [nan |-> TRUE, n |-> 0]

Num(n) == [nan |-> FALSE, n |-> n]

\* the digits s starts with, read after the value acc
RECURSIVE LeadingDigits(_, _)
LeadingDigits(s, acc) ==
    IF s = <<>> \/ ~IsDigit(Head(s)) THEN acc
    ELSE LeadingDigits(Tail(s), 10 * acc + DigitValue(Head(s)))

RECURSIVE SkipBlanks(_)
SkipBlanks(s) == IF s # <<>> /\ Head(s) = " " THEN SkipBlanks(Tail(s)) ELSE s

\* parseInt(string): blanks, a sign, then digits up to the first other
\* character; NaN when no digit stands there
parseInt(str) ==
    LET s == SkipBlanks(str)
        signed == s # <<>> /\ Head(s) \in {"-", "+"}
        t == IF signed THEN Tail(s) ELSE s
    IN  IF t = <<>> \/ ~IsDigit(Head(t)) THEN NaN
        ELSE IF signed /\ Head(s) = "-" THEN Num(0 - LeadingDigits(t, 0))
        ELSE Num(LeadingDigits(t, 0))

\* parseInt(x) || d: NaN and 0 are falsy
OrElse(v, d) == IF v.nan \/ v.n = 0 THEN d ELSE v.n

\* the destructuring default of an absent parameter is the number itself
ParamOr(param, d) == IF param = <<>> THEN Num(d) ELSE parseInt(param[1])

\* pageNum = Math.max(1, parseInt(page) || 1)
pageNum(page) == Max(1, OrElse(ParamOr(page, DefaultPage), DefaultPage))

\* the page size without Math.min(1000, ...)
limitNumUncapped(limit) ==
    Max(1, OrElse(ParamOr(limit, DefaultLimit), DefaultLimit))

\* limitNum = Math.max(1, Math.min(1000, parseInt(limit) || 100))
limitNum(limit) ==
    Max(1, Min(LimitCap, OrElse(ParamOr(limit, DefaultLimit), DefaultLimit)))

\* offset = (pageNum - 1) * limitNum
offset(page, limit) == (pageNum(page) - 1) * limitNum(limit)

\* Math.ceil(total / limitNum)
CeilDiv(a, b) == (a + b - 1) \div b

\* the characters of a stored string
RECURSIVE Chars(_)
Chars(s) ==
    IF s = <<>> THEN <<>>
    ELSE [k \in 1..Head(s).n |-> Head(s).c] \o Chars(Tail(s))

\* date VARCHAR(50): ORDER BY date compares the strings (of digits) character
\* by character
RECURSIVE DateBefore(_, _)
DateBefore(a, b) ==
    IF b = <<>> THEN FALSE
    ELSE IF a = <<>> THEN TRUE
    ELSE IF Head(a) = Head(b) THEN DateBefore(Tail(a), Tail(b))
    ELSE DigitValue(Head(a)) < DigitValue(Head(b))

\* the SELECT without its WHERE user_id = ?
AnyRows(rows, userId) == rows

\* WHERE user_id = ?
OwnRows(rows, userId) == {x \in rows : x.user_id = userId}

\* ... AND address = ? when the parameter is not empty
AddressFilter(rows, address) ==
    IF address = <<>> THEN rows ELSE {x \in rows : CollEq(x.address, address)}

\* ORDER BY date DESC: the orders the server may return the rows in
Orderings(rows) ==
    {o \in [1..Cardinality(rows) -> rows] :
        /\ \A a, b \in 1..Cardinality(rows) : a # b => o[a] # o[b]
        /\ \A a, b \in 1..Cardinality(rows) :
              a < b => ~DateBefore(Chars(o[a].date), Chars(o[b].date))}

\* LIMIT ? OFFSET ?
LimitOffset(o, lim, off) ==
    IF off >= Len(o) THEN <<>> ELSE SubSeq(o, off + 1, Min(Len(o), off + lim))

\* messages.map(msg => ({ _id: msg.sms_id, ... }))
Listed(o) ==
    [k \in 1..Len(o) |-> [_id |-> o[k].sms_id, address |-> o[k].address,
                          body |-> o[k].body, date |-> o[k].date,
                          type |-> o[k].type]]

\* SELECT type, COUNT(*) ... GROUP BY type, reduced to an object
ByType(rows) ==
    [t \in {x.type : x \in rows} |-> Cardinality({x \in rows : x.type = t})]

\* SELECT address, COUNT(*) ... GROUP BY address
ByAddress(rows) ==
    {[address |-> a,
      message_count |-> Cardinality({x \in rows : CollKey(x.address) = a})] :
        a \in {CollKey(x.address) : x \in rows}}

\* ORDER BY message_count DESC LIMIT 10: the sets of groups the server may return
Top(groups) ==
    {g \in SUBSET groups :
        /\ Cardinality(g) = Min(TopContacts, Cardinality(groups))
        /\ \A x \in g, y \in groups \ g : x.message_count >= y.message_count}

\* WHERE ... AND date > ?: the string of the column is read as a number
RecentRows(rows) == {x \in rows : parseInt(Chars(x.date)).n > Cutoff}

\* ... GROUP BY DATE(FROM_UNIXTIME(date/1000)): one day per date of the model
ByDay(rows) ==
    {[date |-> d, count |-> Cardinality({x \in rows : x.date = d})] :
        d \in {x.date : x \in rows}}

----------------------------------------------------------------------------
(* Request bodies *)

Addr == Str("a")
AddrLong == <<Run("a", AddressMax + 1)>>
Body == <<Run("h", 1), Run("i", 1)>>
BodyX == <<Run("x", BodyPrefix), Run("y", 1)>>
BodyZ == <<Run("x", BodyPrefix), Run("z", 1)>>

Msg(address, body, date, type) ==
    [address |-> address, body |-> body, date |-> date, type |-> type]

m1 == Msg(Addr, Body, 5, 1)
m2 == Msg(Addr, Body, 5, 2)         \* m1 with another type
mX == Msg(Addr, BodyX, 5, 1)
mZ == Msg(Addr, BodyZ, 5, 1)        \* differs from mX after the 100th character
mT0 == Msg(Addr, Body, 5, 0)        \* type 0
mNeg == Msg(Addr, Body, -1, 1)      \* negative timestamp
mLong == Msg(AddrLong, Body, 5, 1)  \* address longer than the column

Sms(id, address, body, type) ==
    [sms_id |-> id, address |-> address, body |-> body, date |-> Str("5"),
     type |-> type]

Id1 == <<Run("s", 1), Run("1", 1)>>
Id2 == <<Run("s", 1), Run("2", 1)>>
Id3 == <<Run("s", 1), Run("3", 1)>>

i1 == Sms(Id1, Addr, Body, <<1>>)
i1b == Sms(Id1, Addr, <<Run("y", 1), Run("o", 1)>>, <<>>)  \* sms_id of i1, other content
i2 == [Sms(Id2, Addr, Body, <<2>>) EXCEPT !.date = Str("9")]    \* a recent one
iBad == Sms(Id3, <<>>, Body, <<1>>)                        \* no address

SmsIds == {Id1, Id2}

\* the inputs of the concurrent specification
SmallMsgs == {m1}
SmallBatches == {<<m1>>, <<m1, m2>>}
SmallSms == {i1}
SmallBulks == {<<i1, i2>>, <<i2, i1>>}
SmallIds == {Id1}
\* the inputs of the serial specification
AllMsgs == {m1, m2, mX, mZ, mT0, mNeg, mLong}
AllSms == {i1, i1b, i2, iBad}

Batches(items, n) == UNION {[1..k -> items] : k \in 0..n}

\* three messages of which the second has a negative timestamp
ScenarioBatches == {<<m1, mNeg, mX>>}

LongBatches(item) == {[k \in 1..n |-> item] : n \in (MaxBatch + 1)..MaxLong}

AllBatches ==
    {b : b \in Batches(AllMsgs, MaxBatch) \cup LongBatches(mLong) \cup ScenarioBatches}
AllBulks == {b : b \in Batches(AllSms, MaxBatch) \cup LongBatches(i1)}

\* values of page and limit: "", "0", "2", "-3", "+4", " 5", "12a", "a", "1000",
\* "1001"
QueryValues ==
    {<<>>, <<"0">>, <<"2">>, <<"-", "3">>, <<"+", "4">>, <<" ", "5">>,
     <<"1", "2", "a">>, <<"a">>, <<"1", "0", "0", "0">>, <<"1", "0", "0", "1">>}

----------------------------------------------------------------------------
(* Requests *)

NoData == [none |-> TRUE]

NoRes == [status |-> 0, success |-> FALSE, message |-> "", data |-> NoData]

Res(status, success, message, data) ==
    [status |-> status, success |-> success, message |-> message, data |-> data]

NoQuery == [page |-> <<>>, limit |-> <<>>, address |-> <<>>]

NoReq ==
    [pc |-> "idle", route |-> "none", user |-> 0, messages |-> <<>>,
     smsId |-> <<>>, i |-> 0, existingMessages |-> {},
     insertedCount |-> 0, updatedCount |-> 0,
     savedCount |-> 0, duplicateCount |-> 0, errors |-> <<>>,
     connection |-> 0, res |-> NoRes,
     \* GET /: the query and the rows of the SELECT; GET /stats: the results
     query |-> NoQuery, listed |-> <<>>, stats |-> NoData,
     \* history: per-item outcome, a storage failure hit the request, and
     \* (serial load) it repeats the request before it, and the table as that
     \* request left it
     outcome |-> <<>>, faulty |-> FALSE, again |-> FALSE, rows0 |-> {}]

SameRequest(old, route, u, messages, smsId) ==
    /\ old.route = route
    /\ old.user = u
    /\ old.messages = messages
    /\ old.smsId = smsId

\* a request takes the lowest idle slot.  Under the serial load one request is
\* handled at a time, and the client that was answered may send the same
\* request again.
Takes(r, route, u, messages, smsId) ==
    \/ /\ req[r].pc = "idle"
       /\ \A s \in Slots : s < r => req[s].pc # "idle"
       /\ load # "concurrent" => r = 1
    \/ /\ load = "serial"
       /\ req[r].pc = "done"
       /\ SameRequest(req[r], route, u, messages, smsId)

\* the client of slot r has its answer (or gave up): the slot is idle again
Close(r) ==
    /\ req[r].pc \in {"done", "hung"}
    /\ req' = [req EXCEPT ![r] = NoReq]
    /\ UNCHANGED <<load, schema, smsRows, idRows, conns, faults>>

Table == IF schema = "content" THEN smsRows ELSE idRows

\* the request of slot r arrives: route, user and body
Arrive(r, route, u, messages, smsId) ==
    LET again == /\ load = "serial"
                 /\ req[r].pc = "done"
                 /\ SameRequest(req[r], route, u, messages, smsId)
                 /\ ~req[r].faulty
    IN  [NoReq EXCEPT !.route = route, !.user = u, !.messages = messages,
                      !.smsId = smsId, !.again = again,
                      !.rows0 = IF again THEN Table ELSE {}]

Started(r, rec) == req' = [req EXCEPT ![r] = rec]

\* the response is sent: the handler's locals are gone
Respond(rec, res) ==
    [rec EXCEPT !.pc = "done", !.res = res, !.i = 0, !.existingMessages = {},
                !.connection = 0, !.listed = <<>>, !.stats = NoData]

\* handleValidationErrors: 400 'Validation failed'
ValidationFailed(rec) ==
    Respond(rec, Res(400, FALSE, "Validation failed", NoData))

\* the per-item catch of a bulk loop: messages[k] is reported in errors and the
\* loop goes on with the next message (pc `after` once the batch is through)
ItemFailed(rec, k, what, after) ==
    [rec EXCEPT !.errors = PushError(rec.errors, k, what),
                !.outcome = Append(rec.outcome, "error"),
                !.i = k + 1,
                !.pc = IF k = Len(rec.messages) THEN after ELSE rec.pc]

\* messages[k] went through without an error
ItemDone(rec, k, how, after) ==
    [rec EXCEPT !.outcome = Append(rec.outcome, how),
                !.i = k + 1,
                !.pc = IF k = Len(rec.messages) THEN after ELSE rec.pc]

\* a storage operation may fail while the budget lasts
MayFail == IF faults < MaxFaults THEN {FALSE, TRUE} ELSE {FALSE}

Fault(fail) == faults' = IF fail THEN faults + 1 ELSE faults

----------------------------------------------------------------------------
(* POST /api/sms/message (src/routes/sms.js) *)

\* singleSMSValidation, handleValidationErrors, then the handler up to the SELECT
StartMessage(r, u, msg) ==
    /\ schema = "content"
    /\ LET rec == Arrive(r, "message", u, <<Sanitized(msg)>>, <<>>)
       IN  /\ Takes(r, "message", u, <<Sanitized(msg)>>, <<>>)
           /\ IF singleSMSValidation(msg)
              THEN Started(r, [rec EXCEPT !.pc = "select"])
              ELSE Started(r, ValidationFailed(rec))
    /\ UNCHANGED <<load, schema, smsRows, idRows, conns, faults>>

\* the SELECT returns.  A stored message is answered with 200; for a new one the
\* parameter list of the INSERT names `id`, which the handler never declares:
\* the ReferenceError reaches the catch, has no code, and is answered with 500.
MessageSelect(r) ==
    /\ req[r].pc = "select"
    /\ PoolFree
    /\ \E fail \in MayFail :
        /\ Fault(fail)
        /\ LET rec == req[r]
               msg == rec.messages[1]
               existing == SelectSms(smsRows, rec.user, msg)
           IN  req' = [req EXCEPT ![r] =
                 IF fail
                 THEN Respond([rec EXCEPT !.faulty = TRUE, !.outcome = <<"error">>],
                              Res(500, FALSE, "Failed to save SMS message", NoData))
                 ELSE IF existing # {}
                 THEN Respond([rec EXCEPT !.outcome = <<"existing">>],
                              Res(200, TRUE, "SMS message updated successfully",
                                  [isNew |-> FALSE]))
                 ELSE Respond([rec EXCEPT !.outcome = <<"error">>],
                              Res(500, FALSE, "Failed to save SMS message", NoData))]
    /\ UNCHANGED <<load, schema, smsRows, idRows, conns>>

----------------------------------------------------------------------------
(* POST /api/sms/messages (src/routes/sms.js) *)

\* multipleSMSValidation, handleValidationErrors, then the handler up to the
\* first SELECT
StartMessages(r, u, messages) ==
    /\ schema = "content"
    /\ LET clean == [k \in 1..Len(messages) |-> Sanitized(messages[k])]
           rec == Arrive(r, "messages", u, clean, <<>>)
       IN  /\ Takes(r, "messages", u, clean, <<>>)
           /\ IF ~multipleSMSValidation(messages)
              THEN Started(r, ValidationFailed(rec))
              ELSE IF Len(messages) = 0
              THEN Started(r, Respond(rec, Res(400, FALSE,
                       "Messages array is required and cannot be empty", NoData)))
              ELSE Started(r, [rec EXCEPT !.pc = "precheck", !.i = 1])
    /\ UNCHANGED <<load, schema, smsRows, idRows, conns, faults>>

\* one turn of the first loop: the existence check of messages[i]
MessagesPrecheck(r) ==
    /\ req[r].pc = "precheck"
    /\ LET rec == req[r]
           msg == rec.messages[rec.i]
           last == rec.i = Len(rec.messages)
           next == [rec EXCEPT !.i = IF last THEN 1 ELSE rec.i + 1,
                               !.pc = IF last THEN "process" ELSE "precheck"]
       IN  IF MissingKeyField(msg)
           THEN /\ req' = [req EXCEPT ![r] = next]
                /\ UNCHANGED faults
           ELSE /\ PoolFree
                /\ \E fail \in MayFail :
                    /\ Fault(fail)
                    /\ req' = [req EXCEPT ![r] =
                         IF fail
                         THEN Respond([rec EXCEPT !.faulty = TRUE],
                                Res(500, FALSE, "Failed to process SMS messages", NoData))
                         ELSE [next EXCEPT !.existingMessages =
                                   IF SelectSms(smsRows, rec.user, msg) # {}
                                   THEN rec.existingMessages \cup {compositeKey(msg)}
                                   ELSE rec.existingMessages]]
    /\ UNCHANGED <<load, schema, smsRows, idRows, conns>>

\* one turn of the second loop: messages[i] is refused, skipped or inserted
MessagesProcess(r) ==
    /\ req[r].pc = "process"
    /\ LET rec == req[r]
           k == rec.i
           msg == rec.messages[k]
       IN  IF MissingRequired(msg)
           THEN /\ req' = [req EXCEPT ![r] = ItemFailed(rec, k,
                          "Missing required fields (address, body, date, type)",
                          "respond")]
                /\ UNCHANGED <<smsRows, faults>>
           ELSE IF compositeKey(msg) \in rec.existingMessages
           THEN /\ req' = [req EXCEPT ![r] = ItemDone(rec, k, "existing", "respond")]
                /\ UNCHANGED <<smsRows, faults>>
           ELSE /\ PoolFree
                /\ \E fail \in MayFail :
                    /\ Fault(fail)
                    /\ LET code == IF fail THEN "ER_LOCK_WAIT_TIMEOUT"
                                   ELSE InsertSms(smsRows, SmsRow(rec.user, msg))
                       IN  IF code = "OK"
                           THEN /\ smsRows' = smsRows \cup {SmsRow(rec.user, msg)}
                                /\ req' = [req EXCEPT ![r] =
                                      [ItemDone(rec, k, "inserted", "respond") EXCEPT
                                         !.insertedCount = rec.insertedCount + 1]]
                           ELSE /\ smsRows' = smsRows
                                /\ req' = [req EXCEPT ![r] =
                                      [ItemFailed(rec, k, ErrorMessage(code), "respond")
                                         EXCEPT !.faulty = rec.faulty \/ fail]]
    /\ UNCHANGED <<load, schema, idRows, conns>>

\* after the loop: the status and the report
MessagesRespond(r) ==
    /\ req[r].pc = "respond"
    /\ LET rec == req[r]
           totalProcessed == rec.insertedCount + rec.updatedCount
           hasErrors == Len(rec.errors) > 0
       IN  req' = [req EXCEPT ![r] = Respond(rec,
             Res(StatusCode(hasErrors, totalProcessed),
                 SuccessFlag(hasErrors, totalProcessed),
                 IF hasErrors THEN "Processed with errors"
                 ELSE "All SMS messages processed successfully",
                 [totalMessages |-> Len(rec.messages),
                  insertedMessages |-> rec.insertedCount,
                  updatedMessages |-> rec.updatedCount,
                  processedMessages |-> totalProcessed,
                  erroredMessages |-> Len(rec.errors),
                  errors |-> rec.errors]))]
    /\ UNCHANGED <<load, schema, smsRows, idRows, conns, faults>>

----------------------------------------------------------------------------
(* POST /api/sms (src/routes/auth.js, second module) *)

\* smsValidation, handleValidationErrors, then the handler up to the INSERT
StartSingle(r, u, m) ==
    /\ schema = "identifier"
    /\ LET rec == Arrive(r, "single", u, <<m>>, <<>>)
       IN  /\ Takes(r, "single", u, <<m>>, <<>>)
           /\ IF smsValidation(m)
              THEN Started(r, [rec EXCEPT !.pc = "insert"])
              ELSE Started(r, ValidationFailed(rec))
    /\ UNCHANGED <<load, schema, smsRows, idRows, conns, faults>>

\* INSERT IGNORE returns
SingleInsert(r) ==
    /\ req[r].pc = "insert"
    /\ PoolFree
    /\ \E fail \in MayFail :
        /\ Fault(fail)
        /\ LET rec == req[r]
               row == IdRow(rec.user, rec.messages[1])
           IN  IF fail
               THEN /\ req' = [req EXCEPT ![r] =
                          Respond([rec EXCEPT !.faulty = TRUE, !.outcome = <<"error">>],
                                  Res(500, FALSE, "Internal server error", NoData))]
                    /\ idRows' = idRows
               ELSE /\ ~LockWait(0, row)
                    /\ IF InsertIgnoreAffected(0, row) = 0
                       THEN /\ req' = [req EXCEPT ![r] =
                                  Respond([rec EXCEPT !.outcome = <<"duplicate">>],
                                          Res(200, TRUE, "SMS already exists",
                                              [duplicate |-> TRUE]))]
                            /\ idRows' = idRows
                       ELSE /\ req' = [req EXCEPT ![r] =
                                  Respond([rec EXCEPT !.outcome = <<"inserted">>],
                                          Res(201, TRUE, "SMS saved successfully",
                                              [duplicate |-> FALSE]))]
                            /\ idRows' = idRows \cup {row}
    /\ UNCHANGED <<load, schema, smsRows, conns>>

----------------------------------------------------------------------------
(* DELETE /api/sms/:smsId *)

StartDelete(r, u, smsId) ==
    /\ schema = "identifier"
    /\ LET rec == Arrive(r, "delete", u, <<>>, smsId)
       IN  /\ Takes(r, "delete", u, <<>>, smsId)
           /\ Started(r, [rec EXCEPT !.pc = "delete"])
    /\ UNCHANGED <<load, schema, smsRows, idRows, conns, faults>>

\* DELETE returns
DeleteExec(r) ==
    /\ req[r].pc = "delete"
    /\ PoolFree
    /\ \E fail \in MayFail :
        /\ Fault(fail)
        /\ LET rec == req[r]
               hit == DeleteMatch(idRows, rec.user, rec.smsId)
           IN  IF fail
               THEN /\ req' = [req EXCEPT ![r] =
                          Respond([rec EXCEPT !.faulty = TRUE],
                                  Res(500, FALSE, "Internal server error", NoData))]
                    /\ idRows' = idRows
               ELSE /\ DeleteMatch(Uncommitted(0), rec.user, rec.smsId) = {}
                    /\ idRows' = idRows \ hit
                    /\ req' = [req EXCEPT ![r] =
                          IF hit = {}
                          THEN Respond(rec, Res(404, FALSE, "SMS message not found", NoData))
                          ELSE Respond(rec, Res(200, TRUE,
                                   "SMS message deleted successfully", NoData))]
    /\ UNCHANGED <<load, schema, smsRows, conns>>

----------------------------------------------------------------------------
(* GET /api/sms *)

\* the handler up to the SELECT: the query parameters are read
StartList(r, u, page, limit, address) ==
    /\ schema = "identifier"
    /\ LET rec == Arrive(r, "list", u, <<>>, <<>>)
       IN  /\ Takes(r, "list", u, <<>>, <<>>)
           /\ Started(r, [rec EXCEPT !.pc = "list",
                                     !.query = [page |-> page, limit |-> limit,
                                                address |-> address]])
    /\ UNCHANGED <<load, schema, smsRows, idRows, conns, faults>>

\* the SELECT ... ORDER BY date DESC LIMIT ? OFFSET ? returns
ListSelect(r) ==
    /\ req[r].pc = "list"
    /\ PoolFree
    /\ \E fail \in MayFail :
        /\ Fault(fail)
        /\ LET rec == req[r]
               q == rec.query
               found == AddressFilter(OwnRows(idRows, rec.user), q.address)
           IN  IF fail
               THEN req' = [req EXCEPT ![r] =
                        Respond([rec EXCEPT !.faulty = TRUE],
                                Res(500, FALSE, "Internal server error", NoData))]
               ELSE \E o \in Orderings(found) :
                        req' = [req EXCEPT ![r] =
                           [rec EXCEPT !.pc = "count",
                                       !.listed = Listed(LimitOffset(o,
                                           limitNum(q.limit), offset(q.page, q.limit)))]]
    /\ UNCHANGED <<load, schema, smsRows, idRows, conns>>

\* the SELECT COUNT(*) returns, and the response
ListCount(r) ==
    /\ req[r].pc = "count"
    /\ PoolFree
    /\ \E fail \in MayFail :
        /\ Fault(fail)
        /\ LET rec == req[r]
               q == rec.query
               total == Cardinality(AddressFilter(OwnRows(idRows, rec.user), q.address))
           IN  req' = [req EXCEPT ![r] =
                  IF fail
                  THEN Respond([rec EXCEPT !.faulty = TRUE],
                               Res(500, FALSE, "Internal server error", NoData))
                  ELSE Respond(rec, Res(200, TRUE, "",
                          [messages |-> rec.listed,
                           pagination |->
                              [current_page |-> pageNum(q.page),
                               per_page |-> limitNum(q.limit),
                               total |-> total,
                               total_pages |-> CeilDiv(total, limitNum(q.limit))]]))]
    /\ UNCHANGED <<load, schema, smsRows, idRows, conns>>

----------------------------------------------------------------------------
(* GET /api/sms/stats *)

StartStats(r, u) ==
    /\ schema = "identifier"
    /\ LET rec == Arrive(r, "stats", u, <<>>, <<>>)
       IN  /\ Takes(r, "stats", u, <<>>, <<>>)
           /\ Started(r, [rec EXCEPT !.pc = "stats", !.i = 1])
    /\ UNCHANGED <<load, schema, smsRows, idRows, conns, faults>>

\* the i-th of the four SELECTs returns: total, by type, top contacts, recent
\* activity; after the fourth, the response
StatsSelect(r) ==
    /\ req[r].pc = "stats"
    /\ PoolFree
    /\ \E fail \in MayFail :
        /\ Fault(fail)
        /\ LET rec == req[r]
               own == OwnRows(idRows, rec.user)
               st == IF rec.i = 1
                     THEN [total_messages |-> 0, by_type |-> <<>>,
                           top_contacts |-> {}, recent_activity |-> {}]
                     ELSE rec.stats
           IN  IF fail
               THEN req' = [req EXCEPT ![r] =
                        Respond([rec EXCEPT !.faulty = TRUE],
                                Res(500, FALSE, "Internal server error", NoData))]
               ELSE \E top \in Top(ByAddress(own)) :
                    LET now == CASE rec.i = 1 ->
                                      [st EXCEPT !.total_messages = Cardinality(own)]
                                 [] rec.i = 2 -> [st EXCEPT !.by_type = ByType(own)]
                                 [] rec.i = 3 -> [st EXCEPT !.top_contacts = top]
                                 [] OTHER ->
                                      [st EXCEPT !.recent_activity =
                                                    ByDay(RecentRows(own))]
                    IN  req' = [req EXCEPT ![r] =
                           IF rec.i < 4
                           THEN [rec EXCEPT !.i = rec.i + 1, !.stats = now]
                           ELSE Respond(rec, Res(200, TRUE, "", now))]
    /\ UNCHANGED <<load, schema, smsRows, idRows, conns>>

----------------------------------------------------------------------------
(* POST /api/sms/bulk *)

\* bulkSmsValidation, handleValidationErrors, then pool.getConnection()
StartBulk(r, u, messages) ==
    /\ schema = "identifier"
    /\ LET rec == Arrive(r, "bulk", u, messages, <<>>)
       IN  /\ Takes(r, "bulk", u, messages, <<>>)
           /\ IF bulkSmsValidation(messages)
              THEN Started(r, [rec EXCEPT !.pc = "getconn"])
              ELSE Started(r, ValidationFailed(rec))
    /\ UNCHANGED <<load, schema, smsRows, idRows, conns, faults>>

\* pool.getConnection() returns; its rejection is outside the try, so the
\* handler ends without a response
BulkGetConnection(r) ==
    /\ req[r].pc = "getconn"
    /\ \E fail \in MayFail :
        /\ Fault(fail)
        /\ IF fail
           THEN /\ req' = [req EXCEPT ![r] = [req[r] EXCEPT !.pc = "hung", !.faulty = TRUE]]
                /\ conns' = conns
           ELSE \E c \in Conns :
                /\ FreeConn(c)
                /\ conns' = [conns EXCEPT ![c] = [NoConn EXCEPT !.owner = r]]
                /\ req' = [req EXCEPT ![r] = [req[r] EXCEPT !.pc = "begin", !.connection = c]]
    /\ UNCHANGED <<load, schema, smsRows, idRows>>

\* connection.beginTransaction() returns
BulkBegin(r) ==
    /\ req[r].pc = "begin"
    /\ \E fail \in MayFail :
        /\ Fault(fail)
        /\ LET rec == req[r] IN
           IF fail
           THEN /\ req' = [req EXCEPT ![r] = [rec EXCEPT !.pc = "rollback", !.faulty = TRUE]]
                /\ conns' = conns
           ELSE /\ req' = [req EXCEPT ![r] = [rec EXCEPT !.pc = "loop", !.i = 1]]
                /\ conns' = [conns EXCEPT ![rec.connection].open = TRUE]
    /\ UNCHANGED <<load, schema, smsRows, idRows>>

\* one turn of the loop: INSERT IGNORE of messages[i] on the connection
BulkInsert(r) ==
    /\ req[r].pc = "loop"
    /\ \E fail \in MayFail :
        /\ Fault(fail)
        /\ LET rec == req[r]
               k == rec.i
               c == rec.connection
               row == IdRow(rec.user, rec.messages[k])
           IN  IF fail
               THEN /\ req' = [req EXCEPT ![r] =
                          [ItemFailed(rec, k, "error.message", "commit")
                             EXCEPT !.faulty = TRUE]]
                    /\ conns' = conns
                    /\ idRows' = idRows
               ELSE /\ ~LockWait(c, row)
                    /\ IF InsertIgnoreAffected(c, row) > 0
                       THEN /\ req' = [req EXCEPT ![r] =
                                  [ItemDone(rec, k, "inserted", "commit") EXCEPT
                                     !.savedCount = rec.savedCount + 1]]
                            /\ IF conns[c].open
                               THEN /\ conns' = [conns EXCEPT ![c].rows =
                                                    conns[c].rows \cup {row}]
                                    /\ idRows' = idRows
                               ELSE /\ conns' = conns
                                    /\ idRows' = idRows \cup {row}
                       ELSE /\ req' = [req EXCEPT ![r] =
                                  [ItemDone(rec, k, "duplicate", "commit") EXCEPT
                                     !.duplicateCount = rec.duplicateCount + 1]]
                            /\ UNCHANGED <<conns, idRows>>
    /\ UNCHANGED <<load, schema, smsRows>>

\* one turn of the loop in which the INSERT IGNORE waits for a row lock of a
\* transaction whose own INSERT IGNORE waits for a row lock of this one: the
\* server ends one of the two statements with ER_LOCK_DEADLOCK and rolls its
\* transaction back; the catch of the loop records the item and the loop goes
\* on, its later statements outside any transaction
BulkDeadlock(r) ==
    /\ req[r].pc = "loop"
    /\ LET rec == req[r]
           k == rec.i
           c == rec.connection
           row == IdRow(rec.user, rec.messages[k])
       IN  /\ \E d \in Blockers(c, row) :
                 LET q == req[conns[d].owner] IN
                 /\ q.pc = "loop"
                 /\ c \in Blockers(d, IdRow(q.user, q.messages[q.i]))
           /\ req' = [req EXCEPT ![r] = ItemFailed(rec, k, "error.message", "commit")]
           /\ conns' = [conns EXCEPT ![c].rows = {}, ![c].open = FALSE]
    /\ UNCHANGED <<load, schema, smsRows, idRows, faults>>

\* connection.commit() returns: the report and the release of the finally, or
\* the catch
BulkCommit(r) ==
    /\ req[r].pc = "commit"
    /\ \E fail \in MayFail :
        /\ Fault(fail)
        /\ LET rec == req[r]
               c == rec.connection
           IN  IF fail
               THEN /\ req' = [req EXCEPT ![r] = [rec EXCEPT !.pc = "rollback", !.faulty = TRUE]]
                    /\ UNCHANGED <<conns, idRows>>
               ELSE /\ idRows' = idRows \cup conns[c].rows
                    /\ conns' = Release(c)
                    /\ req' = [req EXCEPT ![r] = Respond(rec,
                          Res(200, TRUE, "Bulk SMS save completed",
                              [total_processed |-> Len(rec.messages),
                               saved_count |-> rec.savedCount,
                               duplicate_count |-> rec.duplicateCount,
                               error_count |-> Len(rec.errors),
                               errors |-> Slice(rec.errors)]))]
    /\ UNCHANGED <<load, schema, smsRows>>

\* connection.rollback() returns: 500 and the release of the finally; when it
\* rejects, the finally still releases and no response is sent
BulkRollback(r) ==
    /\ req[r].pc = "rollback"
    /\ \E fail \in MayFail :
        /\ Fault(fail)
        /\ LET rec == req[r]
               c == rec.connection
           IN  /\ conns' = Release(c)
               /\ req' = [req EXCEPT ![r] =
                     IF fail
                     THEN [rec EXCEPT !.pc = "hung", !.connection = 0, !.faulty = TRUE]
                     ELSE Respond(rec, Res(500, FALSE,
                              "Internal server error during bulk save", NoData))]
    /\ UNCHANGED <<load, schema, smsRows, idRows>>

----------------------------------------------------------------------------
(* Specifications *)

Start ==
    /\ schema \in {"content", "identifier"}
    /\ smsRows = {}
    /\ idRows = {}
    /\ conns = [c \in Conns |-> NoConn]
    /\ req = [r \in Slots |-> NoReq]
    /\ faults = 0

Init == Start /\ load = "concurrent"

InitSeq == Start /\ load = "serial"

InitShared == Start /\ load = "shared"

\* the rest of a handler, once its request has arrived
Step(r) ==
    \/ MessageSelect(r)
    \/ MessagesPrecheck(r)
    \/ MessagesProcess(r)
    \/ MessagesRespond(r)
    \/ SingleInsert(r)
    \/ DeleteExec(r)
    \/ BulkGetConnection(r)
    \/ BulkBegin(r)
    \/ BulkInsert(r)
    \/ BulkCommit(r)
    \/ BulkRollback(r)
    \/ Close(r)

\* the bodies the clients send: a few under the concurrent load, and one
\* user with the wider bodies under the serial load
Clients == IF load = "serial" THEN {1} ELSE Users
Singles == IF load = "serial" THEN AllMsgs ELSE SmallMsgs
Multiples == IF load = "serial" THEN AllBatches ELSE SmallBatches
SingleSms == IF load = "serial" THEN AllSms ELSE SmallSms
Bulks == IF load = "serial" THEN AllBulks ELSE SmallBulks
Deletes == IF load = "serial" THEN SmsIds ELSE SmallIds

\* a request arrives at slot r
Request(r) ==
    /\ req[r].pc \in {"idle", "done"}
    /\ \/ \E u \in Clients, msg \in Singles : StartMessage(r, u, msg)
       \/ \E u \in Clients, b \in Multiples : StartMessages(r, u, b)
       \/ \E u \in Clients, m \in SingleSms : StartSingle(r, u, m)
       \/ \E u \in Clients, b \in Bulks : StartBulk(r, u, b)
       \/ \E u \in Clients, id \in Deletes : StartDelete(r, u, id)

Next == \E r \in Slots : Request(r) \/ Step(r) \/ BulkDeadlock(r)

\* one request in flight: no transaction waits for another one
NextSeq == Request(1) \/ Step(1)

\* requests of any users, handled concurrently
Spec == Init /\ [][Next]_vars

\* one request at a time
SpecSeq == InitSeq /\ [][NextSeq]_vars

\* the parameters of GET /
Pages == {<<>>} \cup {<<p>> : p \in QueryValues}
Addresses == {<<>>, Addr}

\* a read request arrives at slot r
Read(r) ==
    \/ \E u \in Clients, page \in Pages, limit \in Pages, address \in Addresses :
          StartList(r, u, page, limit, address)
    \/ \E u \in Clients : StartStats(r, u)

\* the rest of a read handler
ReadStep(r) ==
    \/ ListSelect(r)
    \/ ListCount(r)
    \/ StatsSelect(r)

\* one request in flight, writes and reads of any users
NextShared == Request(1) \/ Step(1) \/ Read(1) \/ ReadStep(1)

SpecShared == InitShared /\ [][NextShared]_vars

----------------------------------------------------------------------------
(* Vocabulary of the properties *)

BulkRoutes == {"messages", "bulk"}

\* the handler of a bulk route went through its batch and sent its report
Reported(q) ==
    /\ q.pc = "done"
    /\ q.res.message \in {"Processed with errors",
                           "All SMS messages processed successfully",
                           "Bulk SMS save completed"}

\* the items of a batch with a given outcome, in the order of the batch
RECURSIVE Where(_, _, _)
Where(outcome, what, k) ==
    IF k > Len(outcome) THEN <<>>
    ELSE (IF outcome[k] \in what THEN <<k>> ELSE <<>>) \o Where(outcome, what, k + 1)

Errored(q) == Where(q.outcome, {"error"}, 1)

Handled(q) == Where(q.outcome, {"inserted", "existing", "duplicate"}, 1)

ItemsOf(errors) == [k \in 1..Len(errors) |-> errors[k].item]

\* the counters of a report; a counter the report does not carry counts nothing
ReportedTotal(q) ==
    IF q.route = "messages" THEN q.res.data.totalMessages ELSE q.res.data.total_processed
ReportedInserted(q) ==
    IF q.route = "messages" THEN q.res.data.insertedMessages ELSE q.res.data.saved_count
ReportedUpdated(q) ==
    IF q.route = "messages" THEN q.res.data.updatedMessages ELSE 0
ReportedDuplicate(q) ==
    IF q.route = "messages" THEN 0 ELSE q.res.data.duplicate_count
ReportedErrored(q) ==
    IF q.route = "messages" THEN q.res.data.erroredMessages ELSE q.res.data.error_count

\* a message within the stated input constraints and the columns of the table
ValidMessage(q, k) ==
    IF q.route = "messages"
    THEN /\ singleSMSValidation(q.messages[k])
         /\ ~MissingRequired(q.messages[k])
         /\ StrLen(q.messages[k].address) <= AddressMax
    ELSE smsValidation(q.messages[k])

----------------------------------------------------------------------------
(* C1: storage never holds two rows of one user with the same canonical    *)
(* key: (address, body, date) in the content-keyed table, sms_id in the    *)
(* identifier-keyed table.                                                 *)
C1_UniquePerCanonicalKey ==
    /\ \A x, y \in smsRows :
          (/\ x.user_id = y.user_id
           /\ x.address = y.address
           /\ x.body = y.body
           /\ x.date = y.date) => x = y
    /\ \A x, y \in idRows :
          (x.user_id = y.user_id /\ x.sms_id = y.sms_id) => x = y

(* C2: an insert that the uniqueness constraint rejects makes the item a    *)
(* duplicate: it is not in the error list, and the request does not fail    *)
(* with 409.                                                                *)
C2_ConflictIsDuplicate ==
    \A r \in Slots :
        /\ req[r].res.status # 409
        /\ \A k \in 1..Len(req[r].errors) :
              req[r].errors[k].error # "Duplicate entry conflict"

(* C3: a batch of valid messages submitted to a bulk route a second time,   *)
(* with no request and no storage failure in between, inserts nothing,      *)
(* reports no error, reports every item as a duplicate where the report     *)
(* counts duplicates, and leaves the table as the first submission left it. *)
C3_ResubmitIsIdempotent ==
    \A r \in Slots :
        LET q == req[r] IN
        (/\ Reported(q)
         /\ q.route \in BulkRoutes
         /\ q.again
         /\ ~q.faulty
         /\ \A k \in 1..Len(q.messages) : ValidMessage(q, k))
        => /\ ReportedInserted(q) = 0
           /\ ReportedErrored(q) = 0
           /\ q.route = "bulk" => ReportedDuplicate(q) = Len(q.messages)
           /\ Table = q.rows0

(* C4: on a single-message route a valid message that is not stored yet is  *)
(* inserted and answered 201; the same message again is answered as         *)
(* already there; either way the table then holds exactly one row for it.   *)
C4_SingleSubmit ==
    \A r \in Slots :
        LET q == req[r] IN
        (/\ q.pc = "done"
         /\ q.route \in {"message", "single"}
         /\ ~q.faulty
         /\ q.res.message # "Validation failed")
        => /\ \/ q.res.status = 201 /\ q.outcome = <<"inserted">>
              \/ q.res.status = 200 /\ q.outcome \in {<<"existing">>, <<"duplicate">>}
           /\ q.route = "message" =>
                 Cardinality(SelectSms(smsRows, q.user, q.messages[1])) = 1
           /\ q.route = "single" =>
                 Cardinality(SameIdKey(idRows, IdRow(q.user, q.messages[1]))) = 1

(* C5: a bulk request is never refused as a whole because one of its items  *)
(* fails validation: with a valid item beside it, the batch is processed    *)
(* and the invalid item is one per-item error.                              *)
C5_InvalidItemIsPerItem ==
    \A r \in Slots :
        LET q == req[r] IN
        (/\ q.pc = "done"
         /\ q.route \in BulkRoutes
         /\ ~q.faulty
         /\ \E k \in 1..Len(q.messages) : ValidMessage(q, k))
        => /\ q.res.message # "Validation failed"
           /\ Len(q.outcome) = Len(q.messages)
           /\ \A k \in 1..Len(q.messages) :
                 ~ValidMessage(q, k) => q.outcome[k] = "error"

(* C6: a storage failure while one item of a batch is written is one entry  *)
(* of the error list; the items after it are still processed, and the rows  *)
(* the request inserted stay where the insert put them.                     *)
C6_ItemFailureIsContained ==
    \A r \in Slots :
        LET q == req[r] IN
        q.route \in BulkRoutes =>
           /\ ItemsOf(q.errors) = Errored(q)
           /\ Reported(q) => Len(q.outcome) = Len(q.messages)
           /\ q.pc \in {"process", "loop"} => Len(q.outcome) = q.i - 1
           /\ \A k \in 1..Len(q.outcome) :
                 q.outcome[k] = "inserted" =>
                    /\ q.route = "messages" => SmsRow(q.user, q.messages[k]) \in smsRows
                    /\ q.pc \in {"loop", "commit"} =>
                          IdRow(q.user, q.messages[k]) \in conns[q.connection].rows

(* C7: the report of a bulk request is a success when no item errored, a    *)
(* partial success (told apart by its status) when some items were handled  *)
(* and some errored, and a failure when no item was handled.                *)
C7_ThreeOutcomes ==
    \A r \in Slots :
        LET q == req[r] IN
        (Reported(q) /\ q.route \in BulkRoutes) =>
           /\ Errored(q) = <<>> => (q.res.success /\ q.res.status = 200)
           /\ (Errored(q) # <<>> /\ Handled(q) # <<>>) =>
                 (q.res.success /\ q.res.status = 207)
           /\ Handled(q) = <<>> => ~q.res.success

(* C8: in the report of a bulk request inserted + updated + duplicate +     *)
(* errored is the number of messages submitted.                             *)
C8_CountersAddUp ==
    \A r \in Slots :
        LET q == req[r] IN
        (Reported(q) /\ q.route \in BulkRoutes) =>
           ReportedInserted(q) + ReportedUpdated(q) + ReportedDuplicate(q)
             + ReportedErrored(q) = ReportedTotal(q)

(* C9: the report of a bulk request lists at most 10 errors, and its        *)
(* errored count is the number of items that errored.                       *)
C9_ErrorListCapped ==
    \A r \in Slots :
        LET q == req[r] IN
        (Reported(q) /\ q.route \in BulkRoutes) =>
           /\ Len(q.res.data.errors) <= ErrorCap
           /\ ReportedErrored(q) = Len(Errored(q))

(* C10: the error list of a bulk request names the errored items in the     *)
(* order of the batch, in the handler and in the report.                    *)
C10_ErrorsInSubmissionOrder ==
    \A r \in Slots :
        LET q == req[r]
            Ordered(errors) ==
                \A a, b \in 1..Len(errors) : a < b => errors[a].item < errors[b].item
        IN  q.route \in BulkRoutes =>
               /\ Ordered(q.errors)
               /\ Reported(q) => Ordered(q.res.data.errors)

\* a report that lists two errors
C10_Witness ==
    \E r \in Slots :
        /\ Reported(req[r])
        /\ Len(req[r].res.data.errors) >= 2

(* C11: whatever page and limit are sent to GET / (absent, not a number,    *)
(* zero, negative, above the maximum), the page used is at least 1, the     *)
(* page size used is between 1 and 1000 (a size above 1000 becomes 1000)    *)
(* and the offset is not negative; the response shows these values.         *)
C11_PaginationClamped ==
    \A r \in Slots :
        LET q == req[r]
            asked == ParamOr(q.query.limit, DefaultLimit)
        IN  q.route = "list" =>
               /\ pageNum(q.query.page) >= 1
               /\ limitNum(q.query.limit) \in 1..LimitCap
               /\ (~asked.nan /\ asked.n > LimitCap) => limitNum(q.query.limit) = LimitCap
               /\ offset(q.query.page, q.query.limit) >= 0
               /\ Len(q.listed) <= limitNum(q.query.limit)
               /\ (q.pc = "done" /\ q.res.status = 200) =>
                     /\ q.res.data.pagination.current_page >= 1
                     /\ q.res.data.pagination.per_page \in 1..LimitCap
                     /\ Len(q.res.data.messages) <= q.res.data.pagination.per_page

\* a list answered for a negative page and a size above the maximum
C11_Witness ==
    \E r \in Slots :
        LET q == req[r] IN
        /\ q.route = "list" /\ q.pc = "done" /\ q.res.status = 200
        /\ q.query.page # <<>> /\ parseInt(q.query.page[1]).n < 0
        /\ q.query.limit # <<>> /\ parseInt(q.query.limit[1]).n > LimitCap

\* the rows stored under user u, in either table or in an open transaction
StoredUnder(u) ==
    {x \in smsRows \cup idRows \cup UNION {conns[c].rows : c \in Conns} :
        x.user_id = u}

\* a row of user u carries the key of the submitted item m
HasKeyOf(u, route, m) ==
    \E x \in StoredUnder(u) :
        IF route \in {"message", "messages"}
        THEN x \in smsRows /\ CollEq(x.address, m.address)
             /\ CollEq(x.body, m.body) /\ x.date = m.date
        ELSE x \notin smsRows /\ CollEq(x.sms_id, m.sms_id)

\* the answer of a list or stats request is made of the rows of its user
ReadsOwnRows(q) ==
    LET own == {x \in idRows : x.user_id = q.user}
        d == q.res.data
    IN  /\ (q.route = "list" /\ q.pc = "done" /\ q.res.status = 200) =>
              /\ d.pagination.total <= Cardinality(own)
              /\ q.query.address = <<>> => d.pagination.total = Cardinality(own)
              /\ \A k \in 1..Len(d.messages) :
                    \E x \in own : /\ x.sms_id = d.messages[k]._id
                                   /\ x.body = d.messages[k].body
                                   /\ x.type = d.messages[k].type
              /\ \A j, k \in 1..Len(d.messages) :
                    j # k => d.messages[j]._id # d.messages[k]._id
        /\ (q.route = "stats" /\ q.pc = "done" /\ q.res.status = 200) =>
              /\ d.total_messages = Cardinality(own)
              /\ \A t \in DOMAIN d.by_type :
                    d.by_type[t] = Cardinality({x \in own : x.type = t})
              /\ \A g \in d.top_contacts :
                    g.message_count =
                       Cardinality({x \in own : CollKey(x.address) = g.address})
              /\ \A g \in d.recent_activity :
                    g.count = Cardinality({x \in own : x.date = g.date})

\* a row leaves the table only by a delete of its own user
DeletesOwnRows ==
    \A x \in idRows \ idRows' :
        \E r \in Slots : /\ req[r].route = "delete" /\ req[r].pc = "delete"
                         /\ req[r].user = x.user_id

\* an item is classified as already stored only when its user has it
ExistingIsOwn ==
    \A r \in Slots :
        LET q == req[r]
            n == Len(req'[r].outcome)
        IN  (/\ q.pc \notin {"idle", "done"}
             /\ n = Len(q.outcome) + 1
             /\ req'[r].outcome[n] \in {"existing", "duplicate"})
            => HasKeyOf(q.user, q.route, q.messages[n])

(* C12: with one request handled at a time, requests of users A and B: the  *)
(* list and stats answers of B are made of B's rows only, a delete by B     *)
(* removes no row of A, and a submission by B is classified as already      *)
(* stored only when B has the key.                                          *)
C12_Isolation ==
    /\ [](\A r \in Slots : ReadsOwnRows(req[r]))
    /\ [][DeletesOwnRows /\ ExistingIsOwn]_vars

\* B lists or counts its rows while A has rows too, one with the same sms_id
C12_Witness ==
    \E r \in Slots :
        LET q == req[r] IN
        /\ q.route \in {"list", "stats"} /\ q.pc = "done" /\ q.res.status = 200
        /\ \E x, y \in idRows :
              x.user_id = q.user /\ y.user_id # q.user /\ x.sms_id = y.sms_id

\* the DELETE of request q returns in this step, without a storage failure
DeleteReturns(r) ==
    /\ req[r].route = "delete"
    /\ req[r].pc = "delete"
    /\ req'[r].pc = "done"
    /\ ~req'[r].faulty

(* C13: a delete by user U of an identifier that no row of U carries is     *)
(* answered 404 and changes no row of any user; a delete that finds a row   *)
(* of U removes only rows of U with that identifier.                        *)
C13_DeleteIsExact ==
    [][\A r \in Slots :
          DeleteReturns(r) =>
             LET q == req[r]
                 carried == {x \in idRows : /\ x.user_id = q.user
                                            /\ CollEq(x.sms_id, q.smsId)}
             IN  /\ carried = {} => /\ req'[r].res.status = 404
                                    /\ idRows' = idRows
                 /\ carried # {} => /\ req'[r].res.status = 200
                                    /\ idRows' = idRows \ carried
                 /\ smsRows' = smsRows
                 /\ conns' = conns]_vars

\* a delete answered 404 while another user has a row with that identifier
C13_Witness ==
    \E r \in Slots :
        LET q == req[r] IN
        /\ q.route = "delete" /\ q.pc = "done" /\ q.res.status = 404
        /\ \E x \in idRows : x.user_id # q.user /\ CollEq(x.sms_id, q.smsId)

(* C14: a bulk request during which a storage operation failed because the  *)
(* storage is unavailable is aborted with the fatal response (500); the     *)
(* failure is not reported as per-item errors under another status.         *)
C14_UnavailableIsFatal ==
    \A r \in Slots :
        LET q == req[r] IN
        (q.route \in BulkRoutes /\ q.pc = "done" /\ q.faulty) =>
           /\ q.res.status = 500
           /\ ~q.res.success

(* C15: in POST /messages, with no other request in flight, an item that    *)
(* the pre-check did not find and that no earlier item of the batch equals  *)
(* in (address, body, date) is not rejected by unique_sms_per_user, and an  *)
(* item that the pre-check found would be rejected by it.                   *)
C15_PrecheckAgreesWithKey ==
    \A r \in Slots :
        LET q == req[r] IN
        (q.route = "messages" /\ q.pc = "process" /\ ~MissingRequired(q.messages[q.i])) =>
           LET msg == q.messages[q.i]
               found == compositeKey(msg) \in q.existingMessages
               earlier == \E j \in 1..(q.i - 1) :
                             /\ q.messages[j].address = msg.address
                             /\ q.messages[j].body = msg.body
                             /\ q.messages[j].date = msg.date
               code == InsertSms(smsRows, SmsRow(q.user, msg))
           IN  /\ (~found /\ ~earlier) => code # "ER_DUP_ENTRY"
               /\ found => code = "ER_DUP_ENTRY"

(* C16: in POST /messages no item that passed the validation rules, an      *)
(* item of type 0 or timestamp 0 included, is reported with 'Missing        *)
(* required fields', and each such item takes part in the pre-check.        *)
C16_ZeroIsValid ==
    \A r \in Slots :
        LET q == req[r] IN
        q.route = "messages" =>
           /\ \A a \in 1..Len(q.errors) :
                 q.errors[a].error # "Missing required fields (address, body, date, type)"
           /\ q.pc = "precheck" => ~MissingKeyField(q.messages[q.i])

\* an item is classified as already stored in this step
Classified(r) ==
    LET n == Len(req'[r].outcome) IN
    /\ req[r].pc \notin {"idle", "done"}
    /\ n = Len(req[r].outcome) + 1
    /\ req'[r].outcome[n] \in {"existing", "duplicate"}

(* C17: on the four submit routes an item whose key is already stored for   *)
(* the user leaves the stored rows as they are, and it is never counted or  *)
(* reported as updated.                                                     *)
C17_OneDuplicatePolicy ==
    /\ [](\A r \in Slots :
            /\ req[r].updatedCount = 0
            /\ req[r].res.message # "SMS message updated successfully"
            /\ (Reported(req[r]) /\ req[r].route = "messages") =>
                  req[r].res.data.updatedMessages = 0)
    /\ [][\A r \in Slots :
            Classified(r) => /\ smsRows' = smsRows
                             /\ idRows' = idRows
                             /\ \A c \in Conns : conns'[c].rows = conns[c].rows]_vars

\* the rows the INSERT IGNOREs of request q added
InsertedBy(q) ==
    {IdRow(q.user, q.messages[k]) :
        k \in {j \in 1..Len(q.outcome) : q.outcome[j] = "inserted"}}

\* POST /bulk sends its response in this step
BulkAnswers(r) ==
    /\ req[r].route = "bulk"
    /\ req[r].pc \in {"commit", "rollback"}
    /\ req'[r].pc = "done"

(* C18: POST /bulk answers when its transaction is over: with 500 none of   *)
(* the rows the request inserted is in the table, with 200 the request      *)
(* added exactly saved_count rows, those it inserted.                       *)
C18_BulkIsOneTransaction ==
    [][\A r \in Slots :
          BulkAnswers(r) =>
             LET q == req[r]
                 c == q.connection
             IN  /\ ~conns'[c].open
                 /\ conns'[c].rows = {}
                 /\ req'[r].res.status = 500 => InsertedBy(q) \cap idRows' = {}
                 /\ req'[r].res.status = 200 =>
                       /\ Cardinality(idRows' \ idRows) = q.savedCount
                       /\ req'[r].res.data.saved_count = q.savedCount
                       /\ InsertedBy(q) \subseteq idRows']_vars

\* the positions of POST /bulk between getConnection and the finally
Holding == {"begin", "loop", "commit", "rollback"}

(* C19: the connection POST /bulk acquired is released when the request     *)
(* ends, on every path, and only then; a connection is out of the pool      *)
(* only for a request that is between getConnection and its finally.        *)
C19_ConnectionReleased ==
    /\ [](\A c \in Conns :
            conns[c].owner # 0 =>
               LET q == req[conns[c].owner] IN
               /\ q.route = "bulk"
               /\ q.pc \in Holding
               /\ q.connection = c)
    /\ [](\A r \in Slots :
            (req[r].route = "bulk" /\ req[r].pc \in Holding) =>
               conns[req[r].connection].owner = r)
    /\ [][\A c \in Conns :
            (conns[c].owner # 0 /\ conns'[c].owner # conns[c].owner) =>
               LET r == conns[c].owner IN
               /\ conns'[c].owner = 0
               /\ req[r].pc \in {"commit", "rollback"}
               /\ req'[r].pc \in {"done", "hung"}]_vars

\* a request whose rollback failed has ended and the pool is whole
C19_Witness ==
    \E r \in Slots :
        /\ req[r].route = "bulk"
        /\ req[r].pc = "hung"
        /\ Len(req[r].outcome) = Len(req[r].messages)
        /\ \A c \in Conns : conns[c].owner = 0

====
